---------------------------- MODULE Spec2Model ----------------------------
(***************************************************************************)
(* Model of the retry engine of confluent-go: pkg/retry/retry.go           *)
(* (Strategy, its With* builders, Do, calculateBackoff and the preset      *)
(* policies) and of the parts of pkg/api's Error it consults               *)
(* (IsRateLimited, IsInternalServerError, RetryAfter).                     *)
(*                                                                         *)
(* Durations are counted in ticks of a signed DurationBits-bit integer,    *)
(* as time.Duration counts nanoseconds in an int64.  DurationBits stands   *)
(* for the 64 of int64 and Second for the 1e9 of time.Second; both are     *)
(* scaled down so that the arithmetic stays inside the model checker's     *)
(* integers, and all the arithmetic wraps at the scaled width exactly as   *)
(* the int64 arithmetic of the code wraps at 64 bits.  Go's int has the    *)
(* same width as time.Duration (64-bit platforms).                         *)
(* float64 products are modelled by exact rationals; only the conversion   *)
(* back to an integer (truncation, and the implementation-dependent result *)
(* of an out-of-range conversion) is modelled.                             *)
(***************************************************************************)
EXTENDS Integers, Sequences, FiniteSets, TLC

(* ------------------------------ bounds --------------------------------- *)

\* width of int / time.Duration (64 in the code)
DurationBits == 10

\* ticks per second (time.Second, 1e9 in the code)
Second == 2

\* number of With* calls made before Do is called
MaxBuild == 2

\* largest retry index handed to calculateBackoff by the calculator harness
MaxRetryIndex == 8

\* the random unit float is drawn from {0/RandSteps, ..., RandSteps/RandSteps}
RandSteps == 4

(* ------------------------- fixed-width integers ------------------------ *)

RECURSIVE Pow(_, _)
\* math.Pow for a non-negative integer exponent
Pow(b, k) == IF k = 0 THEN 1 ELSE b * Pow(b, k - 1)

MaxDuration == Pow(2, DurationBits - 1) - 1
MinDuration == -Pow(2, DurationBits - 1)

\* the value an int64 operation leaves behind: x modulo 2^w, as a signed w-bit
Wrap(x) == ((x - MinDuration) % Pow(2, DurationBits)) + MinDuration

\* integer part of a/b, b > 0, rounded toward zero (float64 -> integer conversion)
Trunc(a, b) == IF a >= 0 THEN a \div b ELSE -((-a) \div b)

\* the results a build may produce for a float64 -> int64 conversion whose value
\* is outside the int64 range (implementation-dependent in Go: amd64 yields
\* the minimum int64, arm64 saturates)
OutOfRange == {MinDuration, MaxDuration}

\* the result the same build produces for the conversion of a NaN: the
\* minimum int64 where out-of-range values yield it (amd64), 0 where they
\* saturate (arm64)
NaNConversion(oor) == IF oor = MinDuration THEN MinDuration ELSE 0

(* ------------------------------ api.Error ------------------------------ *)

Nil == [type |-> "nil"]

StatusTooManyRequests == 429
StatusInternalServerError == 500

\* Details["retry_after"]: no entry, an entry that is not a string (a JSON
\* number), or a string
NoEntry == [kind |-> "absent"]
NumberEntry == [kind |-> "number"]
StringEntry(str) == [kind |-> "string", str |-> str]

ApiError(code, entry) == [type |-> "api.Error", Code |-> code, retry_after |-> entry]

\* an error that is not a *api.Error
OtherError == [type |-> "errorString"]

IsApiError(e) == e.type = "api.Error"

IsRateLimited(e) == e.Code = StatusTooManyRequests

\* mutant of IsInternalServerError: 500 itself is left out
IsInternalServerErrorAbove500(e) == e.Code > StatusInternalServerError

IsInternalServerError(e) == e.Code >= StatusInternalServerError

Digits == <<"0", "1", "2", "3", "4", "5", "6", "7", "8", "9">>

IsDigit(c) == \E i \in 1..10 : Digits[i] = c

DigitVal(c) == (CHOOSE i \in 1..10 : Digits[i] = c) - 1

RECURSIVE ParseDigits(_, _)
\* the unsigned value of a digit string, accumulated left to right; -1 once it
\* no longer fits a non-negative int (strconv's range error)
ParseDigits(str, acc) ==
    IF str = <<>> THEN acc
    ELSE LET n == acc * 10 + DigitVal(Head(str))
         IN  IF n > MaxDuration + 1 THEN -1 ELSE ParseDigits(Tail(str), n)

\* strconv.Atoi: optional sign, at least one digit, digits only, in range
Atoi(str) ==
    LET signed == str # <<>> /\ Head(str) \in {"+", "-"}
        neg    == signed /\ Head(str) = "-"
        body   == IF signed THEN Tail(str) ELSE str
        syntax == body # <<>> /\ \A i \in 1..Len(body) : IsDigit(body[i])
        mag    == IF syntax THEN ParseDigits(body, 0) ELSE -1
        val    == IF neg THEN -mag ELSE mag
    IN  IF syntax /\ mag >= 0 /\ val >= MinDuration /\ val <= MaxDuration
        THEN [ok |-> TRUE, val |-> val]
        ELSE [ok |-> FALSE, val |-> 0]

DefaultRetryAfter == 60

\* Error.RetryAfter
RetryAfter(e) ==
    IF e.Code # StatusTooManyRequests THEN 0
    ELSE IF e.retry_after.kind = "string" /\ Atoi(e.retry_after.str).ok
         THEN Atoi(e.retry_after.str).val
         ELSE DefaultRetryAfter

(* ------------------------------ errors --------------------------------- *)

\* context.Canceled and context.DeadlineExceeded, the values of ctx.Err()
Canceled == [type |-> "ctxError", msg |-> "context canceled"]
DeadlineExceeded == [type |-> "ctxError", msg |-> "context deadline exceeded"]

\* fmt.Errorf with one %w verb: the format, the %d arguments and the wrapped error
Errorf(format, args, wrapped) ==
    [type |-> "wrapError", format |-> format, args |-> args, Err |-> wrapped]

\* errors.Unwrap: the error wrapped by e, Nil when there is none
Unwrap(e) == IF e.type = "wrapError" THEN e.Err ELSE Nil

(* ------------------------------ policies ------------------------------- *)

\* DefaultRetryableErrors (e is a *api.Error; a nil pointer is Nil)
DefaultRetryableErrors(e) ==
    IF e = Nil THEN FALSE
    ELSE IsRateLimited(e) \/ IsInternalServerError(e)

\* AggressiveRetryableErrors
AggressiveRetryableErrors(e) ==
    IF e = Nil THEN FALSE
    ELSE e.Code = 429 \/ (e.Code >= 500 /\ e.Code <= 599)

\* mutant of ConservativeRetryableErrors: a nil pointer is classified retryable
ConservativeRetryableErrorsNilRetried(e) ==
    IF e = Nil THEN TRUE
    ELSE e.Code = 429 \/ e.Code = 503 \/ e.Code = 504

\* ConservativeRetryableErrors
ConservativeRetryableErrors(e) ==
    IF e = Nil THEN FALSE
    ELSE e.Code = 429 \/ e.Code = 503 \/ e.Code = 504

\* the call s.retryableErrors(apiErr), the field holding one of the presets
retryableErrors(fn, e) ==
    CASE fn = "DefaultRetryableErrors"      -> DefaultRetryableErrors(e)
      [] fn = "AggressiveRetryableErrors"   -> AggressiveRetryableErrors(e)
      [] fn = "ConservativeRetryableErrors" -> ConservativeRetryableErrors(e)

(* ------------------------------ Strategy ------------------------------- *)

\* a float64 multiplier, as the rational num/den
Ratio(n, d) == [num |-> n, den |-> d]

\* math.NaN(), the float64 that is not a number: 0/0.  Every comparison with it
\* is false, and math.Pow(NaN, 0) is 1
NaN == Ratio(0, 0)

IsNaN(m) == m.den = 0

\* m >= 1.0 as float64s compare
AtLeastOne(m) == ~IsNaN(m) /\ m.num >= m.den

DefaultMaxAttempts == 5
DefaultInitialBackoffSeconds == 1
DefaultMaxBackoffSeconds == 60
DefaultMultiplier == 2

\* DefaultStrategy
DefaultStrategy ==
    [maxAttempts     |-> DefaultMaxAttempts,
     initialBackoff  |-> DefaultInitialBackoffSeconds * Second,
     maxBackoff      |-> DefaultMaxBackoffSeconds * Second,
     multiplier      |-> Ratio(DefaultMultiplier, 1),
     addJitter       |-> TRUE,
     retryableErrors |-> "DefaultRetryableErrors"]

\* the random unit float of secureRandUnitFloat64: n/RandSteps (float64(u)/2^64
\* rounds to 1.0 for the largest u), or an error from crypto/rand
RandDraws == {[ok |-> TRUE, n |-> i] : i \in 0..RandSteps} \cup {[ok |-> FALSE, n |-> 0]}

\* time.Duration(float64(d) * math.Pow(m, k)): exact product, truncated; oor is
\* the result the build produces when the product is out of the integer range
ScaledBackoff(d, m, k, oor) ==
    IF IsNaN(m) /\ k > 0
    THEN NaNConversion(oor)
    ELSE LET t == Trunc(d * Pow(m.num, k), Pow(m.den, k))
         IN  IF t >= MinDuration /\ t <= MaxDuration THEN t ELSE oor

\* time.Duration(float64(backoff) * jitterFraction * (2*r - 1)), with
\* jitterFraction = 0.2 and r = n/RandSteps
JitterAmount(backoff, n) == Trunc(backoff * (2 * n - RandSteps), 5 * RandSteps)

\* mutant of calculateBackoff: the cap at maxBackoff is missing
calculateBackoffUncapped(st, attemptsSoFar, rnd, oor) ==
    LET exp == ScaledBackoff(st.initialBackoff, st.multiplier, attemptsSoFar, oor)
        jit == IF rnd.ok THEN Wrap(exp + JitterAmount(exp, rnd.n)) ELSE exp
    IN  IF st.addJitter
        THEN (IF jit < 0 THEN 0 ELSE jit)
        ELSE exp

\* mutant of calculateBackoff: the jitter is applied whatever addJitter says
calculateBackoffAlwaysJitter(st, attemptsSoFar, rnd, oor) ==
    LET exp    == ScaledBackoff(st.initialBackoff, st.multiplier, attemptsSoFar, oor)
        capped == IF exp > st.maxBackoff THEN st.maxBackoff ELSE exp
        jit    == IF rnd.ok THEN Wrap(capped + JitterAmount(capped, rnd.n)) ELSE capped
    IN  IF jit < 0 THEN 0 ELSE jit

\* Strategy.calculateBackoff; rnd is the draw of secureRandUnitFloat64
calculateBackoff(st, attemptsSoFar, rnd, oor) ==
    LET exp    == ScaledBackoff(st.initialBackoff, st.multiplier, attemptsSoFar, oor)
        capped == IF exp > st.maxBackoff THEN st.maxBackoff ELSE exp
        jit    == IF rnd.ok THEN Wrap(capped + JitterAmount(capped, rnd.n)) ELSE capped
    IN  IF st.addJitter
        THEN (IF jit < 0 THEN 0 ELSE jit)
        ELSE capped

\* mutant of WaitDurationFor: a hint of 0 seconds overrides the backoff too
WaitDurationForNonNegative(e, backoff) ==
    IF IsRateLimited(e) /\ RetryAfter(e) >= 0
    THEN Wrap(RetryAfter(e) * Second)
    ELSE backoff

\* the wait chosen in Do after a retryable failure e: the calculated backoff,
\* replaced by the Retry-After seconds of a rate-limited error when positive
WaitDurationFor(e, backoff) ==
    IF IsRateLimited(e) /\ RetryAfter(e) > 0
    THEN Wrap(RetryAfter(e) * Second)
    ELSE backoff

\* mutant of TypeAssert: the *api.Error is looked for along the Unwrap chain,
\* as errors.As does
TypeAssertUnwrapping(e) ==
    IF IsApiError(e) THEN [ok |-> TRUE, apiErr |-> e]
    ELSE IF IsApiError(Unwrap(e)) THEN [ok |-> TRUE, apiErr |-> Unwrap(e)]
    ELSE [ok |-> FALSE, apiErr |-> Nil]

\* the type assertion apiErr, ok := err.(*api.Error) on a non-nil error: it
\* looks at the dynamic type of err itself
TypeAssert(e) ==
    IF IsApiError(e) THEN [ok |-> TRUE, apiErr |-> e]
    ELSE [ok |-> FALSE, apiErr |-> Nil]

\* mutant of ShouldRetry: the policy is not consulted
ShouldRetryAnyApiError(st, e) == IsApiError(e)

\* Do's test after a failed operation(): the error is a *api.Error and the
\* policy classifies it retryable
ShouldRetry(st, e) ==
    TypeAssert(e).ok /\ retryableErrors(st.retryableErrors, TypeAssert(e).apiErr)

\* mutant of AfterAttempt: Do counts the attempts it has left in the Strategy
AfterAttemptCounted(st) == [st EXCEPT !.maxAttempts = @ - 1]

\* the Strategy after one iteration of Do's loop: Do and calculateBackoff read
\* its fields and assign none
AfterAttempt(st) == st

\* mutant of LastAttempt: the test is missing, every retryable failure waits
LastAttemptNever(st, i) == FALSE

\* mutant of LastAttempt: the last attempt is still followed by a wait
LastAttemptPassed(st, i) == i > st.maxAttempts

\* Do's "don't backoff on last attempt" test
LastAttempt(st, i) == i >= st.maxAttempts

\* mutant of DoneBeforeAttempt: only an expired deadline is noticed
DoneBeforeAttemptDeadlineOnly(c) == c = DeadlineExceeded

\* mutant of DoneBeforeAttempt: the check that opens the loop body is missing
DoneBeforeAttemptSkipped(c) == FALSE

\* the case <-ctx.Done() of the select that opens the loop body is ready
DoneBeforeAttempt(c) == c # Nil

\* the error Do returns from the select that opens the loop body
CancelledBeforeAttempt(c) == Errorf("retry cancelled: %w", <<>>, c)

\* mutant of CancelledAfterAttempt: the attempt number is off by one
CancelledAfterNextAttempt(i, c) ==
    Errorf("retry cancelled after attempt %d: %w", <<i + 1>>, c)

\* mutant of CancelledAfterAttempt: the attempt number is left out
CancelledAfterAttemptNoCount(i, c) == Errorf("retry cancelled: %w", <<>>, c)

\* the error Do returns from the select of the wait
CancelledAfterAttempt(i, c) == Errorf("retry cancelled after attempt %d: %w", <<i>>, c)

\* mutant of AfterLoop: the last error is returned without the wrapper
AfterLoopUnwrapped(last, maxAttempts) == last

\* the code of Do after its loop
AfterLoop(last, maxAttempts) ==
    IF last # Nil /\ IsApiError(last)
    THEN Errorf("operation failed after %d attempts: %w", <<maxAttempts>>, last)
    ELSE last

(* ------------------------------- inputs -------------------------------- *)

RetryAfterEntries ==
    {NoEntry, NumberEntry,
     StringEntry(<<"0">>), StringEntry(<<"3">>), StringEntry(<<"-", "1">>),
     StringEntry(<<"x">>), StringEntry(<<"3", "0", "0">>),
     StringEntry(<<"6", "0", "0">>)}

\* a retryable *api.Error wrapped with fmt.Errorf and %w by the operation
WrappedApiError ==
    Errorf("failed to get cluster: %w", <<>>, ApiError(503, NoEntry))

\* what one invocation of the operation may return
OperationResults ==
    {Nil, OtherError, WrappedApiError}
    \cup {ApiError(c, NoEntry) : c \in {404, 500, 503, 600}}
    \cup {ApiError(503, StringEntry(<<"3">>))}
    \cup {ApiError(429, d) : d \in RetryAfterEntries}

\* the presets, by name
Presets ==
    {"DefaultRetryableErrors", "AggressiveRetryableErrors", "ConservativeRetryableErrors"}

\* status codes handed to the presets: every 4xx and 5xx code, the codes around
\* them, and codes that are not HTTP status codes at all (Code is a Go int)
StatusCodes == 395..605 \cup {-1, 0, 200, 1000}

\* the *api.Error values handed to the presets; Nil is the nil pointer
ClassifyInputs == {Nil} \cup {ApiError(c, NoEntry) : c \in StatusCodes}

\* what one invocation of the operation of the second Do may return
OtherResults == {Nil, OtherError, ApiError(404, NoEntry), ApiError(503, NoEntry)}

AttemptsArgs == {0, 2, 3}
InitialBackoffArgs == {-1, 3, 200}
MaxBackoffArgs == {-1, 4, MaxDuration}
MultiplierArgs == {Ratio(1, 2), Ratio(3, 2), Ratio(3, 1), NaN}
PolicyArgs == {"nil", "AggressiveRetryableErrors", "ConservativeRetryableErrors"}

(* ------------------------------- state --------------------------------- *)

VARIABLES
    s,             \* the Strategy the builders and Do share
    builds,        \* With* calls made so far
    pc,            \* Do: "idle" (not called), "loop" (top of the for body),
                   \*     "wait" (in the select of the wait), "done" (returned)
    attempt,       \* Do's loop variable
    err,           \* result of the latest operation() call
    lastErr,       \* Do's lastErr
    backoff,       \* what calculateBackoff returned in this iteration
    waitDuration,  \* Do's waitDuration
    timerFired,    \* the channel of time.After(waitDuration) is ready
    ctxErr,        \* ctx.Err(): Nil until ctx.Done() is closed
    ret,           \* the value Do returned
    calls,         \* operation() invocations so far
    waits,         \* waits started so far
    preCancelled,  \* ctx.Done() was already closed when Do was called
    probe,         \* calculator harness: the latest calculateBackoff call
    verdict,       \* classifier harness: the latest call of a preset policy
    other,         \* a second Do running on the same Strategy: its locals
    atCall         \* history: the value of the Strategy when Do was called

vars == <<s, builds, pc, attempt, err, lastErr, backoff, waitDuration,
          timerFired, ctxErr, ret, calls, waits, preCancelled, probe, verdict, other,
          atCall>>

doVars == <<pc, attempt, err, lastErr, backoff, waitDuration, timerFired,
            ret, calls, waits, preCancelled, atCall>>

NoProbe == [k |-> -1]

NoVerdict == [fn |-> "none"]

\* the locals of a Do that has not been called
NotCalled == [pc |-> "idle", attempt |-> 0, results |-> <<>>, waitDuration |-> 0,
              ret |-> Nil]

Init ==
    /\ s = DefaultStrategy
    /\ builds = 0
    /\ pc = "idle"
    /\ attempt = 0
    /\ err = Nil
    /\ lastErr = Nil
    /\ backoff = 0
    /\ waitDuration = 0
    /\ timerFired = FALSE
    /\ ctxErr = Nil
    /\ ret = Nil
    /\ calls = 0
    /\ waits = 0
    /\ preCancelled = FALSE
    /\ probe = NoProbe
    /\ verdict = NoVerdict
    /\ other = NotCalled
    /\ atCall = DefaultStrategy

(* ------------------------------ builders ------------------------------- *)

\* the body shared by the With* methods: the field of the receiver is assigned
\* and the receiver is returned, so the next call of the chain acts on it
Build(field, value) ==
    /\ pc = "idle"
    /\ probe = NoProbe
    /\ verdict = NoVerdict
    /\ builds < MaxBuild
    /\ builds' = builds + 1
    /\ s' = [s EXCEPT ![field] = value]
    /\ UNCHANGED <<doVars, ctxErr, probe, verdict, other>>

\* mutant of WithMaxAttempts: the clamp at 1 is missing
WithMaxAttemptsUnclamped ==
    \E attempts \in AttemptsArgs :
        Build("maxAttempts", attempts)

WithMaxAttempts ==
    \E attempts \in AttemptsArgs :
        Build("maxAttempts", IF attempts < 1 THEN 1 ELSE attempts)

WithInitialBackoff ==
    \E d \in InitialBackoffArgs :
        Build("initialBackoff", IF d < 0 THEN 0 ELSE d)

WithMaxBackoff ==
    \E d \in MaxBackoffArgs :
        Build("maxBackoff", IF d < 0 THEN 0 ELSE d)

WithMultiplier ==
    \E m \in MultiplierArgs :
        Build("multiplier", IF m.num < m.den THEN Ratio(1, 1) ELSE m)

WithJitter ==
    \E enabled \in BOOLEAN :
        Build("addJitter", enabled)

WithRetryableErrors ==
    \E fn \in PolicyArgs :
        Build("retryableErrors", IF fn # "nil" THEN fn ELSE s.retryableErrors)

(* ------------------------- classifier harness -------------------------- *)

\* a preset policy is called, once, on a *api.Error
Classify ==
    /\ pc = "idle"
    /\ builds = 0
    /\ probe = NoProbe
    /\ verdict = NoVerdict
    /\ \E fn \in Presets, e \in ClassifyInputs :
        verdict' = [fn |-> fn, err |-> e, result |-> retryableErrors(fn, e)]
    /\ UNCHANGED <<s, builds, doVars, ctxErr, probe, other>>

(* --------------------------------- Do ---------------------------------- *)

\* mutant of DoCall: the loop starts at attempt 0
DoCallFromZero ==
    /\ pc = "idle"
    /\ verdict = NoVerdict
    /\ pc' = "loop"
    /\ attempt' = 0
    /\ lastErr' = Nil
    /\ preCancelled' = (ctxErr # Nil)
    /\ atCall' = s
    /\ UNCHANGED <<s, builds, err, backoff, waitDuration, timerFired, ctxErr,
                   ret, calls, waits, probe, verdict, other>>

\* Do is called: lastErr is nil and the loop starts at attempt 1
DoCall ==
    /\ pc = "idle"
    /\ verdict = NoVerdict
    /\ pc' = "loop"
    /\ attempt' = 1
    /\ lastErr' = Nil
    /\ preCancelled' = (ctxErr # Nil)
    /\ atCall' = s
    /\ UNCHANGED <<s, builds, err, backoff, waitDuration, timerFired, ctxErr,
                   ret, calls, waits, probe, verdict, other>>

\* the context is cancelled, or its deadline passes
Cancel ==
    /\ pc # "done"
    /\ ctxErr = Nil
    /\ \E e \in {Canceled, DeadlineExceeded} : ctxErr' = e
    /\ UNCHANGED <<s, builds, doVars, probe, verdict, other>>

Return(value) ==
    /\ pc' = "done"
    /\ ret' = value

\* top of the loop body with ctx.Done() closed: the first select returns
DoCancelled ==
    /\ pc = "loop"
    /\ attempt <= s.maxAttempts
    /\ DoneBeforeAttempt(ctxErr)
    /\ Return(CancelledBeforeAttempt(ctxErr))
    /\ UNCHANGED <<s, builds, attempt, err, lastErr, backoff, waitDuration,
                   timerFired, ctxErr, calls, waits, preCancelled, probe, verdict, other, atCall>>

\* one iteration of the loop from its condition to its return, its break or
\* the start of the wait
DoAttempt ==
    /\ pc = "loop"
    /\ IF attempt > s.maxAttempts
       THEN /\ Return(AfterLoop(lastErr, s.maxAttempts))
            /\ UNCHANGED <<attempt, err, lastErr, backoff, waitDuration,
                           timerFired, calls, waits>>
       ELSE /\ ~DoneBeforeAttempt(ctxErr)
            /\ \E e \in OperationResults :
                /\ err' = e
                /\ calls' = calls + 1
                /\ IF e = Nil
                   THEN /\ Return(Nil)
                        /\ UNCHANGED <<attempt, lastErr, backoff, waitDuration,
                                       timerFired, waits>>
                   ELSE /\ lastErr' = e
                        /\ IF ~ShouldRetry(s, e)
                           THEN /\ Return(e)
                                /\ UNCHANGED <<attempt, backoff, waitDuration,
                                               timerFired, waits>>
                           ELSE IF LastAttempt(s, attempt)
                           THEN /\ Return(AfterLoop(e, s.maxAttempts))
                                /\ UNCHANGED <<attempt, backoff, waitDuration,
                                               timerFired, waits>>
                           ELSE \E rnd \in RandDraws, oor \in OutOfRange :
                                /\ backoff' = calculateBackoff(s, attempt - 1, rnd, oor)
                                /\ waitDuration' = WaitDurationFor(TypeAssert(e).apiErr, backoff')
                                /\ timerFired' = FALSE
                                /\ waits' = waits + 1
                                /\ pc' = "wait"
                                /\ UNCHANGED <<attempt, ret>>
    /\ s' = AfterAttempt(s)
    /\ UNCHANGED <<builds, ctxErr, preCancelled, probe, verdict, other, atCall>>

\* the timer of time.After(waitDuration) expires
TimerFire ==
    /\ pc = "wait"
    /\ ~timerFired
    /\ timerFired' = TRUE
    /\ UNCHANGED <<s, builds, pc, attempt, err, lastErr, backoff, waitDuration,
                   ctxErr, ret, calls, waits, preCancelled, probe, verdict, other, atCall>>

\* mutant of WaitElapsed: the select does not block until the timer fires
WaitElapsedUnfired ==
    /\ pc = "wait"
    /\ attempt' = attempt + 1
    /\ pc' = "loop"
    /\ UNCHANGED <<s, builds, err, lastErr, backoff, waitDuration, timerFired,
                   ctxErr, ret, calls, waits, preCancelled, probe, verdict, other, atCall>>

\* mutant of WaitElapsed: the timer case starts the same wait again
WaitElapsedRearms ==
    /\ pc = "wait"
    /\ timerFired
    /\ timerFired' = FALSE
    /\ UNCHANGED <<s, builds, pc, attempt, err, lastErr, backoff, waitDuration,
                   ctxErr, ret, calls, waits, preCancelled, probe, verdict, other,
                   atCall>>

\* the select of the wait takes the timer case: next iteration
WaitElapsed ==
    /\ pc = "wait"
    /\ timerFired
    /\ attempt' = attempt + 1
    /\ pc' = "loop"
    /\ UNCHANGED <<s, builds, err, lastErr, backoff, waitDuration, timerFired,
                   ctxErr, ret, calls, waits, preCancelled, probe, verdict, other, atCall>>

\* the select of the wait takes the ctx.Done() case
WaitCancelled ==
    /\ pc = "wait"
    /\ ctxErr # Nil
    /\ Return(CancelledAfterAttempt(attempt, ctxErr))
    /\ UNCHANGED <<s, builds, attempt, err, lastErr, backoff, waitDuration,
                   timerFired, ctxErr, calls, waits, preCancelled, probe, verdict, other, atCall>>

Next ==
    \/ WithMaxAttempts
    \/ WithInitialBackoff
    \/ WithMaxBackoff
    \/ WithMultiplier
    \/ WithJitter
    \/ WithRetryableErrors
    \/ Classify
    \/ DoCall
    \/ Cancel
    \/ DoCancelled
    \/ DoAttempt
    \/ TimerFire
    \/ WaitElapsed
    \/ WaitCancelled

Spec == Init /\ [][Next]_vars

(* ------------------------------ second Do ------------------------------ *)

\* a second goroutine calls Do on the same Strategy, with context.Background()
\* and an operation of its own
OtherCall ==
    /\ other.pc = "idle"
    /\ other' = [other EXCEPT !.pc = "loop", !.attempt = 1]
    /\ UNCHANGED <<s, builds, doVars, ctxErr, probe, verdict>>

\* one iteration of the second Do's loop (the Done channel of its context is
\* nil, so the select that opens the body takes its default case)
OtherAttempt ==
    /\ other.pc = "loop"
    /\ other.attempt <= s.maxAttempts
    /\ \E e \in OtherResults :
        LET called == [other EXCEPT !.results = Append(@, e)]
        IN  IF e = Nil
            THEN other' = [called EXCEPT !.pc = "done", !.ret = Nil]
            ELSE IF ~ShouldRetry(s, e)
            THEN other' = [called EXCEPT !.pc = "done", !.ret = e]
            ELSE IF LastAttempt(s, other.attempt)
            THEN other' = [called EXCEPT !.pc = "done",
                                         !.ret = AfterLoop(e, s.maxAttempts)]
            ELSE \E rnd \in RandDraws, oor \in OutOfRange :
                 other' = [called EXCEPT
                    !.pc = "wait",
                    !.waitDuration =
                        WaitDurationFor(TypeAssert(e).apiErr,
                                        calculateBackoff(s, other.attempt - 1, rnd, oor))]
    /\ s' = AfterAttempt(s)
    /\ UNCHANGED <<builds, doVars, ctxErr, probe, verdict>>

\* the timer of the second Do's wait expires and its select takes that case
OtherElapsed ==
    /\ other.pc = "wait"
    /\ other' = [other EXCEPT !.pc = "loop", !.attempt = @ + 1]
    /\ UNCHANGED <<s, builds, doVars, ctxErr, probe, verdict>>

\* two Do calls on one shared Strategy, no With* call
NextConc ==
    \/ DoCall
    \/ Cancel
    \/ DoCancelled
    \/ DoAttempt
    \/ TimerFire
    \/ WaitElapsed
    \/ WaitCancelled
    \/ OtherCall
    \/ OtherAttempt
    \/ OtherElapsed

SpecConc == Init /\ [][NextConc]_vars

(* ---------------------- With* during a running Do ---------------------- *)

\* another goroutine calls a With* method on the Strategy of a running Do: the
\* same assignment to the receiver as in Build
Reconfigure(field, value) ==
    /\ pc \in {"loop", "wait"}
    /\ builds < MaxBuild
    /\ builds' = builds + 1
    /\ s' = [s EXCEPT ![field] = value]
    /\ UNCHANGED <<doVars, ctxErr, probe, verdict, other>>

ConcurrentWithMaxAttempts ==
    \E attempts \in AttemptsArgs :
        Reconfigure("maxAttempts", IF attempts < 1 THEN 1 ELSE attempts)

ConcurrentWithRetryableErrors ==
    \E fn \in PolicyArgs :
        Reconfigure("retryableErrors", IF fn # "nil" THEN fn ELSE s.retryableErrors)

\* one Do, and With* calls made on its Strategy by other goroutines meanwhile
NextReconf ==
    \/ DoCall
    \/ Cancel
    \/ DoCancelled
    \/ DoAttempt
    \/ TimerFire
    \/ WaitElapsed
    \/ WaitCancelled
    \/ ConcurrentWithMaxAttempts
    \/ ConcurrentWithRetryableErrors

SpecReconf == Init /\ [][NextReconf]_vars

(* ------------------------------- fairness ------------------------------ *)

\* one Do on a Strategy whose attempt budget WithMaxAttempts may have set
NextTerm ==
    \/ WithMaxAttempts
    \/ DoCall
    \/ Cancel
    \/ DoCancelled
    \/ DoAttempt
    \/ TimerFire
    \/ WaitElapsed
    \/ WaitCancelled

\* a called Do keeps running: the goroutine is scheduled, every operation()
\* call returns (DoAttempt), the timer of every wait expires (TimerFire) and a
\* select with a ready case takes one
Fairness ==
    /\ WF_vars(DoAttempt \/ DoCancelled)
    /\ WF_vars(TimerFire)
    /\ WF_vars(WaitElapsed \/ WaitCancelled)

SpecTerm == Init /\ [][NextTerm]_vars /\ Fairness

(* ------------------------- calculator harness -------------------------- *)

\* calculateBackoff is called, once, on the Strategy built so far, for a retry
\* index, a random draw and a conversion outcome
Calculate ==
    /\ probe = NoProbe
    /\ \E k \in 0..MaxRetryIndex, rnd \in RandDraws, oor \in OutOfRange :
        probe' = [k |-> k, st |-> s, rnd |-> rnd, oor |-> oor,
                  result |-> calculateBackoff(s, k, rnd, oor)]
    /\ UNCHANGED <<s, builds, doVars, ctxErr, verdict, other>>

NextCalc ==
    \/ WithMaxAttempts
    \/ WithInitialBackoff
    \/ WithMaxBackoff
    \/ WithMultiplier
    \/ WithJitter
    \/ WithRetryableErrors
    \/ Calculate

SpecCalc == Init /\ [][NextCalc]_vars

NextClassify == Classify

SpecClassify == Init /\ [][NextClassify]_vars

(* ------------------------------ vocabulary ----------------------------- *)

\* this step invokes the operation
Invokes == calls' = calls + 1

\* e is a *api.Error that the policy of the Strategy classifies non-retryable
PolicyNonRetryable(e) ==
    e # Nil /\ IsApiError(e) /\ ~retryableErrors(s.retryableErrors, e)

\* e is a *api.Error that the policy of the Strategy classifies retryable
PolicyRetryable(e) ==
    e # Nil /\ IsApiError(e) /\ retryableErrors(s.retryableErrors, e)

\* e is one of the two cancellation errors of Do
IsCancellation(e) ==
    /\ e.type = "wrapError"
    /\ e.format \in {"retry cancelled: %w", "retry cancelled after attempt %d: %w"}

\* e reports an attempt count
CarriesCount(e) == e.type = "wrapError" /\ Len(e.args) = 1

RECURSIVE InChain(_, _)
\* target is e or is reached from e by repeated Unwrap
InChain(e, target) ==
    \/ e = target
    \/ (Unwrap(e) # Nil /\ InChain(Unwrap(e), target))

\* the string hint of a rate-limited error, when it is an integer
HasHint(e) == e.retry_after.kind = "string" /\ Atoi(e.retry_after.str).ok
Hint(e) == Atoi(e.retry_after.str).val

\* the product initialBackoff * multiplier^k of a probe fits a Duration
ProbeInRange ==
    /\ ~IsNaN(probe.st.multiplier)
    /\ Trunc(probe.st.initialBackoff * Pow(probe.st.multiplier.num, probe.k),
          Pow(probe.st.multiplier.den, probe.k)) <= MaxDuration

(* -------------------------------- claims ------------------------------- *)

\* C1: fail-fast.  An invocation that returns an error the policy classifies
\* non-retryable ends Do at once with that same error value and starts no
\* wait; once Do has returned nothing is invoked; and any invocation after the
\* first follows a retryable result, so an operation that always returns such
\* an error is invoked exactly once whatever maxAttempts is.
C1_FailFast ==
    [][ /\ (Invokes /\ PolicyNonRetryable(err'))
            => (pc' = "done" /\ ret' = err' /\ waits' = waits)
        /\ (pc = "done" /\ PolicyNonRetryable(err))
            => (calls' = calls /\ waits' = waits /\ ret' = ret /\ pc' = "done")
        /\ (Invokes /\ calls >= 1) => PolicyRetryable(err)
      ]_vars

C1_Witness ==
    /\ pc = "done"
    /\ s.maxAttempts = 3
    /\ calls = 2
    /\ PolicyNonRetryable(err)
    /\ err.Code = 404
    /\ ret = err

\* C2: exhaustion.  When Do has returned without cancellation and the last
\* (hence every) invocation returned a policy-retryable *api.Error, the
\* operation was invoked exactly maxAttempts times and the result is the
\* "operation failed after N attempts" error wrapping the last error.
C2_Exhaustion ==
    (pc = "done" /\ ctxErr = Nil /\ PolicyRetryable(err))
        => /\ calls = s.maxAttempts
           /\ ret = Errorf("operation failed after %d attempts: %w",
                           <<s.maxAttempts>>, err)

C2_Witness ==
    /\ pc = "done"
    /\ ctxErr = Nil
    /\ PolicyRetryable(err)
    /\ s.maxAttempts = 3
    /\ calls = 3
    /\ ret.type = "wrapError"
    /\ ret.args = <<3>>

\* C3: success on recovery.  The invocation that returns nil is invocation
\* number k = attempt <= maxAttempts, Do returns nil with it, and no invocation
\* follows once Do has returned.
C3_SuccessOnRecovery ==
    [][ /\ (Invokes /\ err' = Nil)
            => (pc' = "done" /\ ret' = Nil /\ calls' = attempt
                /\ calls' <= s.maxAttempts)
        /\ (pc = "done") => (calls' = calls /\ ret' = ret)
      ]_vars

C3_Witness ==
    /\ pc = "done"
    /\ ctxErr = Nil
    /\ calls = 3
    /\ err = Nil
    /\ ret = Nil
    /\ lastErr # Nil

\* C4: pre-attempt cancellation.  While Do is at the top of the loop body for
\* attempt i with the signal set, the operation is not invoked and the only
\* step Do takes returns a cancellation error wrapping ctx.Err(); a Do called
\* with the context already cancelled returns with zero invocations.
C4_PreAttemptCancellation ==
    [][ /\ (pc = "loop" /\ attempt <= s.maxAttempts /\ ctxErr # Nil)
            => /\ calls' = calls
               /\ (pc' # pc) => (pc' = "done" /\ IsCancellation(ret')
                                 /\ Unwrap(ret') = ctxErr)
        /\ (preCancelled' /\ pc' = "done") => (calls' = 0 /\ IsCancellation(ret'))
      ]_vars

C4_Witness ==
    /\ pc = "done"
    /\ IsCancellation(ret)
    /\ ~CarriesCount(ret)
    /\ calls = 2
    /\ attempt = 3

C4_WitnessZero ==
    /\ pc = "done"
    /\ preCancelled
    /\ calls = 0

\* C5: cancellation during the wait.  When the select of the wait after failed
\* attempt i resolves with the signal set and the timer not yet expired, Do
\* returns "retry cancelled after attempt i" wrapping ctx.Err(), i being the
\* number of invocations made, and attempt i+1 is not invoked.
C5_CancellationDuringWait ==
    [][ (pc = "wait" /\ ctxErr # Nil /\ ~timerFired /\ pc' # "wait")
            => /\ pc' = "done"
               /\ calls' = calls
               /\ ret' = Errorf("retry cancelled after attempt %d: %w",
                                <<calls>>, ctxErr)
      ]_vars

C5_Witness ==
    /\ pc = "done"
    /\ ~timerFired
    /\ calls = 2
    /\ ret = Errorf("retry cancelled after attempt %d: %w", <<2>>, Canceled)

\* C6 as stated: every cancellation error Do returns carries the count of the
\* attempts already made.
C6_Original ==
    (pc = "done" /\ IsCancellation(ret))
        => (CarriesCount(ret) /\ ret.args = <<calls>>)

\* C6 as amended: a cancellation error returned from the select of a wait
\* carries the count of the attempts made; the cancellation error returned
\* by the check that opens the loop body carries no count.
C6_CountOnlyFromWait ==
    [][ /\ (pc = "wait" /\ pc' = "done")
            => (IsCancellation(ret') /\ CarriesCount(ret') /\ ret'.args = <<calls>>)
        /\ (pc = "loop" /\ pc' = "done" /\ IsCancellation(ret'))
            => ~CarriesCount(ret')
      ]_vars

C6_Witness ==
    /\ pc = "done"
    /\ IsCancellation(ret)
    /\ CarriesCount(ret)
    /\ ret.args = <<3>>
    /\ ret.Err = DeadlineExceeded

\* C7: whenever Do has returned a non-nil error after a failed invocation, the
\* error of the last invocation is reachable from it by unwrapping.
C7_NothingSwallowed ==
    (pc = "done" /\ ret # Nil /\ lastErr # Nil) => InChain(ret, lastErr)

\* C8: a wait that follows a rate-limited error with the hint h > 0 lasts
\* exactly h seconds.
C8_ServerOverride ==
    (pc = "wait" /\ IsRateLimited(lastErr) /\ HasHint(lastErr) /\ Hint(lastErr) > 0)
        => waitDuration = Hint(lastErr) * Second

\* C8, within the range: the same, for the hints h whose h seconds fit a
\* Duration (the product does not wrap).
C8_ServerOverrideInRange ==
    (pc = "wait" /\ IsRateLimited(lastErr) /\ HasHint(lastErr) /\ Hint(lastErr) > 0
       /\ Hint(lastErr) * Second <= MaxDuration)
        => waitDuration = Hint(lastErr) * Second

\* C9: for a rate-limited error with no retry_after entry RetryAfter is 0 and
\* the wait is the calculated backoff.
C9_FallbackWithoutHint ==
    (pc = "wait" /\ IsRateLimited(lastErr) /\ lastErr.retry_after = NoEntry)
        => (RetryAfter(lastErr) = 0 /\ waitDuration = backoff)

Unjittered(k) ==
    calculateBackoff([probe.st EXCEPT !.addJitter = FALSE], k, probe.rnd, probe.oor)

\* the capped backoff plus the largest jitter of the probe's strategy fits a
\* Duration (the addition in calculateBackoff does not wrap)
ProbeJitterInRange == 6 * probe.st.maxBackoff <= 5 * MaxDuration

\* C11: with jitter disabled the backoff for index k+1 is at least the backoff
\* for index k, for every k, and both lie in [0, maxBackoff].
C11_MonotonicBound ==
    (probe # NoProbe /\ ~probe.st.addJitter)
        => /\ Unjittered(probe.k + 1) >= probe.result
           /\ 0 <= probe.result /\ probe.result <= probe.st.maxBackoff
           /\ 0 <= Unjittered(probe.k + 1)
           /\ Unjittered(probe.k + 1) <= probe.st.maxBackoff

\* C11, within the range: the same, for the indices k whose product
\* initialBackoff * multiplier^(k+1) fits a Duration.
C11_MonotonicBoundInRange ==
    (probe # NoProbe /\ ~probe.st.addJitter
       /\ ~IsNaN(probe.st.multiplier)
       /\ Trunc(probe.st.initialBackoff * Pow(probe.st.multiplier.num, probe.k + 1),
                Pow(probe.st.multiplier.den, probe.k + 1)) <= MaxDuration)
        => /\ Unjittered(probe.k + 1) >= probe.result
           /\ 0 <= probe.result /\ probe.result <= probe.st.maxBackoff
           /\ Unjittered(probe.k + 1) <= probe.st.maxBackoff

\* C12: with jitter enabled the computed wait w lies within 20% of the
\* non-jittered value b for the same index, 0.8*b <= w <= 1.2*b, and w >= 0.
C12_JitterBound ==
    (probe # NoProbe /\ probe.st.addJitter)
        => /\ 4 * Unjittered(probe.k) <= 5 * probe.result
           /\ 5 * probe.result <= 6 * Unjittered(probe.k)
           /\ probe.result >= 0

\* C12, within the range: the same, when initialBackoff * multiplier^k and the
\* jittered sum fit a Duration.
C12_JitterBoundInRange ==
    (probe # NoProbe /\ probe.st.addJitter /\ ProbeInRange /\ ProbeJitterInRange)
        => /\ 4 * Unjittered(probe.k) <= 5 * probe.result
           /\ 5 * probe.result <= 6 * Unjittered(probe.k)
           /\ probe.result >= 0

\* the classifier was called on a *api.Error with a status code in lo..hi
Classified(fn, lo, hi) ==
    /\ verdict # NoVerdict
    /\ verdict.fn = fn
    /\ verdict.err # Nil
    /\ verdict.err.Code >= lo
    /\ verdict.err.Code <= hi

\* C13: preset classification table.  For every status code in 400..599,
\* DefaultRetryableErrors and AggressiveRetryableErrors return true exactly for
\* 429 and 500..599, ConservativeRetryableErrors returns true exactly for 429,
\* 503 and 504, and no preset returns true for a 4xx code other than 429.
C13_PresetTable ==
    /\ \A fn \in {"DefaultRetryableErrors", "AggressiveRetryableErrors"} :
        Classified(fn, 400, 599)
            => (verdict.result <=> (verdict.err.Code = 429 \/ verdict.err.Code >= 500))
    /\ Classified("ConservativeRetryableErrors", 400, 599)
            => (verdict.result <=> verdict.err.Code \in {429, 503, 504})
    /\ \A fn \in Presets :
        (Classified(fn, 400, 499) /\ verdict.err.Code # 429) => ~verdict.result

C13_Witness ==
    /\ Classified("ConservativeRetryableErrors", 502, 502)
    /\ ~verdict.result

C13_WitnessServerError ==
    /\ Classified("DefaultRetryableErrors", 500, 500)
    /\ verdict.result

\* C14: Aggressive is the widest retry surface.  Whatever the status code, an
\* error that DefaultRetryableErrors or ConservativeRetryableErrors classifies
\* retryable is classified retryable by AggressiveRetryableErrors too.
C14_AggressiveWidest ==
    (verdict # NoVerdict /\ verdict.err # Nil /\ verdict.result)
        => AggressiveRetryableErrors(verdict.err)

\* C14, for the status codes HTTP defines (below 600)
C14_AggressiveWidestBelow600 ==
    (verdict # NoVerdict /\ verdict.err # Nil /\ verdict.result
        /\ verdict.err.Code < 600)
        => AggressiveRetryableErrors(verdict.err)

\* e is an error that is not a *api.Error
Unclassifiable(e) == e # Nil /\ ~IsApiError(e)

\* C15: unclassifiable errors fail safe.  An invocation that returns an error
\* that is not a *api.Error ends Do at once with that same error value and
\* starts no wait, whatever the policy and maxAttempts; nothing is invoked
\* afterwards, and no invocation follows one that returned such an error, so the
\* operation is invoked exactly once; and every preset returns false for a nil
\* *api.Error.
C15_UnclassifiableFailSafe ==
    [][ /\ (Invokes /\ Unclassifiable(err'))
            => (pc' = "done" /\ ret' = err' /\ waits' = waits)
        /\ (pc = "done" /\ Unclassifiable(err))
            => (calls' = calls /\ waits' = waits /\ ret' = ret /\ pc' = "done")
        /\ (Invokes /\ calls >= 1) => ~Unclassifiable(err)
        /\ (verdict' # NoVerdict /\ verdict'.err = Nil) => ~verdict'.result
      ]_vars

C15_Witness ==
    /\ pc = "done"
    /\ err = OtherError
    /\ ret = OtherError
    /\ calls = 1
    /\ waits = 0
    /\ s.maxAttempts = 3
    /\ s.retryableErrors = "AggressiveRetryableErrors"

C15_WitnessNil ==
    /\ verdict # NoVerdict
    /\ verdict.err = Nil
    /\ verdict.fn = "ConservativeRetryableErrors"
    /\ ~verdict.result

\* the fields of a Strategy
Fields == DOMAIN DefaultStrategy

\* this step is a With* call
Builds == builds' = builds + 1

\* C16 as stated: a With* call leaves the Strategy it was called on unchanged.
C16_Original == [][Builds => s' = s]_vars

\* C16, what the builders do instead: a With* call assigns its setting, clamped
\* to its valid range, to the Strategy it was called on and changes no other
\* field of it, and it touches nothing of Do.
C16_SetsReceiverField ==
    [][Builds =>
        /\ Cardinality({f \in Fields : s'[f] # s[f]}) <= 1
        /\ s'.maxAttempts >= 1
        /\ s'.initialBackoff >= 0
        /\ s'.maxBackoff >= 0
        /\ ~(~IsNaN(s'.multiplier) /\ s'.multiplier.num < s'.multiplier.den)
        /\ s'.retryableErrors \in Presets
        /\ UNCHANGED doVars
      ]_vars

\* a Do on a Strategy that two later With* calls have changed
C16_ChangedReceiverUsed ==
    /\ builds = 2
    /\ s = [DefaultStrategy EXCEPT !.maxAttempts = 2, !.addJitter = FALSE]
    /\ pc = "done"
    /\ calls = 2
    /\ ret = Errorf("operation failed after %d attempts: %w", <<2>>, err)

\* the timer of the latest wait is pending: created by time.After, not yet
\* fired (Do never stops a timer)
TimerPending == waits >= 1 /\ ~timerFired

\* C18: timer release.  Whenever Do has returned, for any reason, no timer it
\* created is still pending.
C18_TimerRelease == pc = "done" => ~TimerPending

\* C18, for the returns that are not a cancellation during a wait
C18_TimerReleaseUnlessCancelled ==
    (pc = "done" /\ ~(IsCancellation(ret) /\ CarriesCount(ret))) => ~TimerPending

\* the three shapes of a non-nil result of Do
ShapeExhausted(r) ==
    r.type = "wrapError" /\ r.format = "operation failed after %d attempts: %w"
ShapeVerbatim(r) == ~IsCancellation(r) /\ ~ShapeExhausted(r)
ShapeCancelled(r) == IsCancellation(r)

\* this step is a return of Do with a non-nil result
ReturnsError == pc # "done" /\ pc' = "done" /\ ret' # Nil

\* C19: three failure shapes.  Every non-nil return of Do is exactly one of
\* (a) the error of the last invocation itself, iff that invocation's error was
\* non-retryable or unclassifiable; (b) the "operation failed after N attempts"
\* wrapper with N = maxAttempts around it, iff the operation has been invoked
\* exactly maxAttempts times and every invocation returned a retryable error;
\* (c) a "retry cancelled" wrapper around ctx.Err(), iff the return is taken at
\* the pre-attempt check or in the wait with the signal set.
C19_ThreeShapes ==
    [][ /\ ReturnsError =>
            /\ Cardinality({i \in 1..3 :
                    \/ i = 1 /\ ShapeVerbatim(ret')
                    \/ i = 2 /\ ShapeExhausted(ret')
                    \/ i = 3 /\ ShapeCancelled(ret')}) = 1
            /\ (ShapeVerbatim(ret') /\ ret' = err')
                    <=> (Invokes /\ (PolicyNonRetryable(err') \/ Unclassifiable(err')))
            /\ ShapeVerbatim(ret') => ret' = err'
            /\ ShapeExhausted(ret')
                    <=> (Invokes /\ calls' = s.maxAttempts /\ PolicyRetryable(err'))
            /\ ShapeExhausted(ret')
                    => (ret'.args = <<s.maxAttempts>> /\ Unwrap(ret') = err')
            /\ ShapeCancelled(ret')
                    <=> (~Invokes /\ ctxErr # Nil /\ pc \in {"loop", "wait"})
            /\ ShapeCancelled(ret') => Unwrap(ret') = ctxErr
        /\ (Invokes /\ calls >= 1) => PolicyRetryable(err)
      ]_vars

C19_Witness ==
    /\ pc = "done"
    /\ s.maxAttempts = 3
    /\ calls = 3
    /\ ShapeExhausted(ret)
    /\ ret.args = <<3>>

C19_WitnessCancelled ==
    /\ pc = "done"
    /\ s.maxAttempts = 2
    /\ calls = 1
    /\ PolicyRetryable(err)
    /\ ShapeCancelled(ret)

\* what Do returns, without cancellation, after an invocation with result e
\* that was the last one: a function of the Strategy and of e only
OutcomeOf(st, e) ==
    IF e = Nil THEN Nil
    ELSE IF ShouldRetry(st, e) THEN AfterLoop(e, st.maxAttempts)
    ELSE e

\* C20: determinism without jitter.  With jitter disabled the backoff Do
\* computed for a wait is the value calculateBackoff yields for the Strategy's
\* initialBackoff, maxBackoff and multiplier and the retry index under every
\* random draw (for the one result the build gives an out-of-range conversion),
\* the wait duration is determined by that backoff and the invocation's
\* result, and without cancellation the value returned is determined by the
\* Strategy and the last result; so two runs with equal parameters and equal
\* results wait the same durations and return the same outcome.
C20_DeterministicWithoutJitter ==
    /\ (pc = "wait" /\ ~s.addJitter)
        => /\ \E oor \in OutOfRange : \A rnd \in RandDraws :
                backoff = calculateBackoff(s, attempt - 1, rnd, oor)
           /\ waitDuration = WaitDurationFor(lastErr, backoff)
    /\ (pc = "done" /\ ~s.addJitter /\ ctxErr = Nil)
        => ret = OutcomeOf(s, err)

C20_Witness ==
    /\ pc = "wait"
    /\ ~s.addJitter
    /\ attempt = 2
    /\ waits = 2
    /\ lastErr = ApiError(503, NoEntry)
    /\ waitDuration = 2 * DefaultInitialBackoffSeconds * Second

RECURSIVE SoloRun(_, _, _)
\* Do run alone on Strategy st, without cancellation, with an operation whose
\* i-th invocation returns results[i]: the number of invocations made and the
\* value returned (running: the results end before Do does)
SoloRun(st, results, i) ==
    IF i > Len(results) THEN [calls |-> i - 1, running |-> TRUE]
    ELSE LET e == results[i]
         IN  IF e = Nil THEN [calls |-> i, running |-> FALSE, ret |-> Nil]
             ELSE IF ~ShouldRetry(st, e)
             THEN [calls |-> i, running |-> FALSE, ret |-> e]
             ELSE IF LastAttempt(st, i)
             THEN [calls |-> i, running |-> FALSE,
                   ret |-> AfterLoop(e, st.maxAttempts)]
             ELSE SoloRun(st, results, i + 1)

\* C17: concurrent reuse.  With two Do calls running on one shared Strategy and
\* no With* call, no step writes the Strategy, no step of one call writes a
\* local of the other, and each call makes the invocations and returns the
\* value it would alone: the second, given its operation's results; the first,
\* given its last result and its context.
C17_ConcurrentReuse ==
    /\ [][ /\ s' = s
           /\ (other' # other) => UNCHANGED <<doVars, ctxErr>>
           /\ (doVars' # doVars \/ ctxErr' # ctxErr) => other' = other
         ]_vars
    /\ [](other.pc = "done"
            => SoloRun(s, other.results, 1)
                = [calls |-> Len(other.results), running |-> FALSE, ret |-> other.ret])
    /\ [](other.pc \in {"loop", "wait"}
            => SoloRun(s, other.results, 1)
                = [calls |-> Len(other.results), running |-> TRUE])
    /\ []((pc = "done" /\ ctxErr = Nil) => ret = OutcomeOf(s, err))
    /\ []((pc = "done" /\ ctxErr # Nil) => (ShapeCancelled(ret) /\ Unwrap(ret) = ctxErr))

C17_Witness ==
    /\ pc = "done"
    /\ other.pc = "done"
    /\ calls = 2
    /\ ret = Nil
    /\ Len(other.results) = DefaultMaxAttempts
    /\ ShapeExhausted(other.ret)

\* the two calls interleave: both are in their waits at once
C17_WitnessBothWaiting ==
    /\ pc = "wait"
    /\ other.pc = "wait"
    /\ attempt = 3
    /\ other.attempt = 1

\* the server override is in effect for a wait that follows error e
OverrideInEffect(e) == IsRateLimited(e) /\ RetryAfter(e) > 0

\* initialBackoff * multiplier^k of the Strategy, as an integer number of ticks
ExactProduct(st, k) ==
    Trunc(st.initialBackoff * Pow(st.multiplier.num, k), Pow(st.multiplier.den, k))

\* min(initialBackoff * multiplier^k, maxBackoff)
ExactSchedule(st, k) ==
    IF ExactProduct(st, k) > st.maxBackoff THEN st.maxBackoff ELSE ExactProduct(st, k)

\* C21: exponential schedule.  With jitter disabled and no server override in
\* effect, the wait Do performs after failed attempt i (1 <= i < maxAttempts)
\* equals min(initialBackoff * multiplier^(i-1), maxBackoff), the multiplier
\* being a number; consequently when initialBackoff > maxBackoff every wait
\* equals maxBackoff.
C21_ExponentialSchedule ==
    (pc = "wait" /\ ~s.addJitter /\ ~OverrideInEffect(lastErr))
        => /\ 1 <= attempt /\ attempt < s.maxAttempts
           /\ ~IsNaN(s.multiplier)
           /\ waitDuration = ExactSchedule(s, attempt - 1)
           /\ s.initialBackoff > s.maxBackoff => waitDuration = s.maxBackoff

\* C21, for the waits whose product initialBackoff * multiplier^(i-1) fits a
\* Duration
C21_ExponentialScheduleInRange ==
    (pc = "wait" /\ ~s.addJitter /\ ~OverrideInEffect(lastErr)
        /\ ~IsNaN(s.multiplier)
        /\ ExactProduct(s, attempt - 1) <= MaxDuration)
        => /\ 1 <= attempt /\ attempt < s.maxAttempts
           /\ waitDuration = ExactSchedule(s, attempt - 1)
           /\ s.initialBackoff > s.maxBackoff => waitDuration = s.maxBackoff

\* C22: the server hint is ignored and the calculated backoff is used whenever
\* the error of the failed attempt is not rate-limited (whatever its Details
\* hold) or its hint is <= 0.
C22_HintIgnored ==
    (pc = "wait"
        /\ (~IsRateLimited(lastErr) \/ (HasHint(lastErr) /\ Hint(lastErr) <= 0)))
        => /\ waitDuration = backoff
           /\ \E rnd \in RandDraws, oor \in OutOfRange :
                waitDuration = calculateBackoff(s, attempt - 1, rnd, oor)

C22_Witness ==
    /\ pc = "wait"
    /\ lastErr = ApiError(503, StringEntry(<<"3">>))
    /\ ~s.addJitter
    /\ attempt = 2
    /\ waitDuration = 2 * DefaultInitialBackoffSeconds * Second

C22_WitnessNegativeHint ==
    /\ pc = "wait"
    /\ lastErr = ApiError(429, StringEntry(<<"-", "1">>))
    /\ ~s.addJitter
    /\ attempt = 1
    /\ waitDuration = DefaultInitialBackoffSeconds * Second

\* C23: attempt budget and ordering.  In every reachable state of a Do the
\* operation has been invoked at most maxAttempts times, and attempt i+1 begins
\* only after attempt i has returned a retryable error and the wait that
\* followed attempt i has completed (its timer has fired): the attempts are
\* numbered 1, 2, ... in the order they are made, one wait between two.
C23_BudgetAndOrder ==
    /\ [](calls <= s.maxAttempts)
    /\ [][Invokes =>
            /\ attempt = calls + 1
            /\ waits = calls
            /\ calls >= 1 => (PolicyRetryable(err) /\ lastErr = err /\ timerFired)
         ]_vars

C23_Witness ==
    /\ pc = "done"
    /\ s.maxAttempts = 3
    /\ calls = 3
    /\ waits = 2
    /\ timerFired
    /\ ret = Nil

\* C24: waits occur only between attempts.  Do starts a wait only in the step
\* in which attempt i < maxAttempts fails with a retryable error; an invocation
\* that succeeds, fails with a non-retryable or unclassifiable error or is the
\* maxAttempts-th ends Do without a wait; no wait precedes the first
\* invocation; so at most maxAttempts - 1 waits are started.
C24_WaitsBetweenAttempts ==
    /\ [][ /\ waits' # waits
                => /\ waits' = waits + 1
                   /\ Invokes
                   /\ PolicyRetryable(err')
                   /\ attempt < s.maxAttempts
                   /\ pc' = "wait"
           /\ (Invokes /\ (err' = Nil \/ ~PolicyRetryable(err') \/ calls' = s.maxAttempts))
                => (waits' = waits /\ pc' = "done")
         ]_vars
    /\ [](waits <= s.maxAttempts - 1)
    /\ [](calls = 0 => waits = 0)

C24_Witness ==
    /\ pc = "done"
    /\ s.maxAttempts = 3
    /\ calls = 3
    /\ waits = 2
    /\ ShapeExhausted(ret)
    /\ s.retryableErrors = "ConservativeRetryableErrors"

\* C25: builder invariant.  Every Strategy reached from DefaultStrategy by With*
\* calls has maxAttempts >= 1, initialBackoff >= 0, maxBackoff >= 0,
\* multiplier >= 1.0 and a policy.
C25_BuilderInvariant ==
    /\ s.maxAttempts >= 1
    /\ s.initialBackoff >= 0
    /\ s.maxBackoff >= 0
    /\ AtLeastOne(s.multiplier)
    /\ s.retryableErrors \in Presets

\* C25, for the arguments that are numbers: the same, the multiplier being
\* either >= 1.0 or the NaN that WithMultiplier was handed
C25_BuilderInvariantUnlessNaN ==
    /\ s.maxAttempts >= 1
    /\ s.initialBackoff >= 0
    /\ s.maxBackoff >= 0
    /\ (IsNaN(s.multiplier) \/ AtLeastOne(s.multiplier))
    /\ s.retryableErrors \in Presets

\* C26: no attempt after an observed cancellation.  Once the signal has fired,
\* no step of Do invokes the operation, also when the wait's select takes the
\* timer case with the signal ready, and the only value Do can then return is a
\* cancellation error wrapping ctx.Err().
C26_NoAttemptAfterCancellation ==
    [][ctxErr # Nil =>
            /\ calls' = calls
            /\ (pc # "done" /\ pc' = "done")
                => (ShapeCancelled(ret') /\ Unwrap(ret') = ctxErr)
            /\ (pc = "wait" /\ pc' = "loop") => (timerFired /\ attempt' <= s.maxAttempts)
      ]_vars

\* the wait's select took the timer case with the signal ready, and the next
\* pre-attempt check returned
C26_Witness ==
    /\ pc = "done"
    /\ ~preCancelled
    /\ calls = 1
    /\ waits = 1
    /\ attempt = 2
    /\ timerFired
    /\ ret = CancelledBeforeAttempt(Canceled)

\* C27: in-flight isolation from reconfiguration.  A running Do keeps the
\* attempt budget and the policy its Strategy had when Do was called, whatever
\* With* calls other goroutines make on that Strategy meanwhile: it waits after
\* an invocation exactly when that invocation's error is retryable under the
\* policy at the call and fewer than the maxAttempts at the call have been made,
\* and without cancellation it returns what it would have returned with the
\* Strategy as it was at the call.
C27_InFlightIsolation ==
    /\ [][Invokes =>
            /\ calls' <= atCall.maxAttempts
            /\ pc' = "wait"
                <=> (ShouldRetry(atCall, err') /\ calls' < atCall.maxAttempts)
         ]_vars
    /\ []((pc = "done" /\ ctxErr = Nil) => ret = OutcomeOf(atCall, err))

\* C27, when no With* call is made while the Do runs
C27_IsolatedWhenNotReconfigured ==
    /\ [][(Invokes /\ s = atCall) =>
            /\ calls' <= atCall.maxAttempts
            /\ pc' = "wait"
                <=> (ShouldRetry(atCall, err') /\ calls' < atCall.maxAttempts)
         ]_vars
    /\ []((pc = "done" /\ ctxErr = Nil /\ s = atCall) => ret = OutcomeOf(atCall, err))

\* e is not a *api.Error but wraps one that the policy of the Strategy
\* classifies retryable
WrapsRetryable(e) ==
    /\ e.type = "wrapError"
    /\ IsApiError(Unwrap(e))
    /\ retryableErrors(s.retryableErrors, Unwrap(e))

\* C28: errors that wrap a *api.Error are not retried.  An invocation that
\* returns an error wrapping a retryable *api.Error ends Do at once with that
\* same error value and starts no wait; nothing is invoked afterwards and no
\* invocation follows one that returned such an error, so the operation is
\* invoked exactly once.
C28_WrappedNotRetried ==
    [][ /\ (Invokes /\ WrapsRetryable(err'))
            => (pc' = "done" /\ ret' = err' /\ waits' = waits)
        /\ (pc = "done" /\ WrapsRetryable(err))
            => (calls' = calls /\ waits' = waits /\ ret' = ret /\ pc' = "done")
        /\ (Invokes /\ calls >= 1) => ~WrapsRetryable(err)
      ]_vars

C28_Witness ==
    /\ pc = "done"
    /\ err = WrappedApiError
    /\ ret = WrappedApiError
    /\ calls = 1
    /\ waits = 0
    /\ s.maxAttempts = 3
    /\ s.retryableErrors = "ConservativeRetryableErrors"

\* C29: success is never fabricated.  For every Strategy built from
\* DefaultStrategy by With* calls, Do returns nil only if the operation was
\* invoked at least once and its last invocation returned nil.
C29_NoFabricatedSuccess ==
    (pc = "done" /\ ret = Nil) => (calls >= 1 /\ err = Nil)

\* success on the single attempt that WithMaxAttempts(0) leaves
C29_Witness ==
    /\ pc = "done"
    /\ ret = Nil
    /\ s.maxAttempts = 1
    /\ builds = 1
    /\ calls = 1
    /\ err = Nil

\* Do has reached one of its terminal outcomes
Terminal ==
    /\ pc = "done"
    /\ \/ ret = Nil
       \/ ShapeVerbatim(ret)
       \/ ShapeExhausted(ret)
       \/ ShapeCancelled(ret)

\* C30: termination.  Every call to Do eventually reaches a terminal outcome
\* (succeeded, failed non-retryable, failed exhausted, cancelled), given that
\* every invocation returns and every wait ends; and after a terminal outcome
\* the operation is never invoked again.
C30_Termination ==
    /\ (pc # "idle") ~> Terminal
    /\ [][pc = "done" => (pc' = "done" /\ calls' = calls /\ ret' = ret)]_vars

C30_Witness ==
    /\ Terminal
    /\ ShapeExhausted(ret)
    /\ s.maxAttempts = 2
    /\ calls = 2
    /\ waits = 1
    /\ lastErr.Code = 500

=============================================================================
